---- MODULE Spec2Model ----
(***************************************************************************)
(* linuxfd: Python wrappers (source/__init__.py) around the Linux eventfd, *)
(* signalfd, timerfd and inotify descriptors.                              *)
(*                                                                         *)
(* Two specifications share one set of variables:                          *)
(*   Spec     the descriptor lifecycle of several wrapper instances that   *)
(*            share the process's descriptor table (construction, close(), *)
(*            __del__, and the eventfd data operations on self._fd);       *)
(*   SpecIno  one inotify instance: its path -> watch descriptor dict, the *)
(*            kernel's watches and the kernel's event queue.               *)
(*                                                                         *)
(* The C extension modules (eventfd_c, signalfd_c, timerfd_c, inotify_c)   *)
(* and the kernel behind them are not part of the Python sources; the      *)
(* definitions named K_... model them from the specification and the       *)
(* documented behaviour of the system calls.                               *)
(***************************************************************************)
EXTENDS Integers, Sequences, FiniteSets

\* ------------------------------------------------------------------ bounds
NumInst == 2      \* wrapper objects the program creates
NumFds == 1       \* descriptor numbers the process may use (RLIMIT_NOFILE)
MaxCounter == 2   \* the largest eventfd counter value, 0xfffffffffffffffe
                  \* in the source, scaled down
MaxWd == 2        \* watch descriptors the kernel hands out in a run
MaxQueue == 2     \* events the kernel queues per instance (max_queued_events)
MaxCookie == 1    \* renames the environment performs

Inst == 1..NumInst
\* descriptor numbers start at 3: 0, 1 and 2 are stdin, stdout and stderr
Fds == 3..(3 + NumFds - 1)
Kinds == {"eventfd", "signalfd", "timerfd", "inotify"}

\* the value of an attribute that was never assigned (reading it raises
\* AttributeError)
Unset == -2

\* ------------------------------------------------------------ variables
VARIABLES
  objs,      \* objs[i]: the Python object i: kind, life state, self._fd, flags
  fdtable,   \* kernel: fdtable[f] = i when descriptor f is open on the kernel
             \* object that instance i's constructor created, 0 when f is free
  released,  \* released[i]: how often the kernel object created by i was released
  counter,   \* kernel: counter[i] is the eventfd counter of the object created by i
  kflags,    \* kernel: kflags[i] is the configuration of the object created by
             \* i: the flags it was made with and, for a signalfd, its signal mask
  closed,    \* closed[i]: close() has been called on object i
  last,      \* the last call of the program and how it ended
  wd,        \* inotify: self._wd, the dict pathname -> watch descriptor, as
             \* its items in insertion order
  inb,       \* inotify: self._isNonBlocking
  kwatch,    \* kernel: kwatch[w] is the watch with descriptor w of the instance
  nextwd,    \* kernel: the watch descriptor the next new watch gets
  queue,     \* kernel: the instance's queue of events not read yet
  exists,    \* file system: exists[f] while file f has not been deleted
  cookie,    \* kernel: the cookie of the last rename
  removed,   \* the pathnames a remove() has succeeded on
  ilast,     \* the last step of the inotify instance or its environment
  elast,     \* eventfd: the argument and the return value of the last call
  rpend,     \* eventfd: rpend[i]: a thread is blocked in read() on object i
  wpend,     \* eventfd: wpend[i]: the value a thread blocked in write() on
             \* object i is writing, 0 when none is (write(0) never blocks)
  spend,     \* kernel: the signals pending for the process, oldest first
  sblock,    \* signalfd: sblock[i]: a thread is blocked in read() on object i
  slast,     \* signalfd: the argument and the return value of the last call
  tval,      \* kernel: tval[i]: clock ticks until the timer created by i expires,
             \* 0 when it is disarmed
  tint,      \* kernel: tint[i]: the interval of the timer created by i
  texp,      \* kernel: texp[i]: expirations of the timer not read yet
  tblock,    \* timerfd: tblock[i]: a thread is blocked in read() on object i
  tlast,     \* timerfd: the arguments and the return value of the last call
  tdue,      \* timerfd: tdue[i]: the expirations of the timer created by i
             \* since its last settime() that no read() has returned yet
  pc,        \* examples/test.py: where the main loop is
  events,    \* examples/test.py: the descriptors of the list epl.poll()
             \* returned that the for loop has not handled yet
  isrunning, \* examples/test.py: isrunning
  sawint     \* examples/test.py: sfd.read() has returned a SIGINT record

lifeVars == <<objs, fdtable, released, counter, kflags, closed, last>>
inoVars == <<wd, inb, kwatch, nextwd, queue, exists, cookie, removed, ilast>>
evtVars == <<elast, rpend, wpend>>
sigVars == <<spend, sblock, slast>>
tmrVars == <<tval, tint, texp, tblock, tlast, tdue>>
loopVars == <<pc, events, isrunning, sawint>>
dataVars == <<evtVars, sigVars, tmrVars, loopVars>>
vars == <<lifeVars, inoVars, dataVars>>

NoObj == [kind |-> "none", st |-> "none", fd |-> Unset,
          isNonBlocking |-> FALSE, isSemaphore |-> FALSE,
          isCloseOnExec |-> FALSE, signalset |-> {}]

InitLife ==
  /\ objs = [i \in Inst |-> NoObj]
  /\ fdtable = [f \in Fds |-> 0]
  /\ released = [i \in Inst |-> 0]
  /\ counter = [i \in Inst |-> 0]
  /\ kflags = [i \in Inst |-> {}]
  /\ closed = [i \in Inst |-> FALSE]
  /\ last = [op |-> "none", inst |-> 0, res |-> "ok", changed |-> FALSE]

\* ------------------------------------------------- kernel: descriptor table
\* The lowest free descriptor number (what every creation call returns), 0
\* when the table is full (the call then fails with EMFILE).
K_lowest_free ==
  IF \E f \in Fds : fdtable[f] = 0
  THEN CHOOSE f \in Fds : fdtable[f] = 0 /\ \A g \in Fds : g < f => fdtable[g] # 0
  ELSE 0

\* A creation call (eventfd(), signalfd(-1,..), timerfd_create(), inotify_init()):
\* its result when the kernel has memory (nomem = FALSE) or not.
K_create_res(nomem) ==
  IF nomem THEN "ENOMEM" ELSE IF K_lowest_free = 0 THEN "EMFILE" ELSE "ok"

\* os.close(fd): the result.  fd = Unset stands for the failed attribute
\* lookup self._fd, which raises before os.close is entered.
os_close_res(fd) ==
  IF fd = Unset THEN "AttributeError"
  ELSE IF fd \notin DOMAIN fdtable \/ fdtable[fd] = 0 THEN "EBADF" ELSE "ok"

\* os.close(fd): the descriptor table afterwards.
os_close_fdtable(fd) ==
  IF os_close_res(fd) = "ok" THEN [fdtable EXCEPT ![fd] = 0] ELSE fdtable

\* os.close(fd): the release counts afterwards (the object that fd was open on
\* is released).
os_close_released(fd) ==
  IF os_close_res(fd) = "ok"
  THEN [released EXCEPT ![fdtable[fd]] = @ + 1]
  ELSE released

\* os.close(fd): the counters afterwards (a released object has none left).
os_close_counter(fd) ==
  IF os_close_res(fd) = "ok" THEN [counter EXCEPT ![fdtable[fd]] = 0] ELSE counter

\* os.close(fd): the flags afterwards (a released object has none left).
os_close_kflags(fd) ==
  IF os_close_res(fd) = "ok" THEN [kflags EXCEPT ![fdtable[fd]] = {}] ELSE kflags

\* --------------------------------------------------------- pure functions
Min(a, b) == IF a < b THEN a ELSE b
Max(a, b) == IF a > b THEN a ELSE b

\* the clipping without its upper limit: max(int(v),0)
Clip_lower(v) == Max(v, 0)

\* min(max(int(v),0),0xfffffffffffffffe)
Clip(v) == Min(Max(v, 0), MaxCounter)

\* what a caller passes as initval or value: <<FALSE, 0>> for an object int()
\* rejects, <<TRUE, v>> for the integers below, in and above the range
IntArgs == {<<FALSE, 0>>} \cup {<<TRUE, v>> : v \in (-1)..(MaxCounter + 1)}

\* ------------------------------------------------------------ constructors
\* Objects are numbered in the order the program constructs them.
IsNext(i) == objs[i].st = "none" /\ \A j \in Inst : j < i => objs[j].st # "none"

\* The common tail of the four constructors: self._fd = <creation call>;
\* nomem: the kernel is out of memory.
\* The attributes set before it stay on the object when the call raises.
Create(i, o, nomem, initcount, flags) ==
  LET r == K_create_res(nomem)
      f == K_lowest_free
  IN /\ objs' = [objs EXCEPT ![i] =
                   IF r = "ok" THEN [o EXCEPT !.st = "live", !.fd = f]
                   ELSE [o EXCEPT !.st = "failed"]]
     /\ fdtable' = IF r = "ok" THEN [fdtable EXCEPT ![f] = i] ELSE fdtable
     /\ counter' = IF r = "ok" THEN [counter EXCEPT ![i] = initcount] ELSE counter
     /\ kflags' = IF r = "ok" THEN [kflags EXCEPT ![i] = flags] ELSE kflags
     /\ last' = [op |-> "init", inst |-> i, res |-> r, changed |-> (r = "ok")]
     /\ UNCHANGED <<released, closed>>

\* A constructor that raises before the creation call, or in it before the
\* kernel is asked for a descriptor.
Raise(i, o, err) ==
  /\ objs' = [objs EXCEPT ![i] = [o EXCEPT !.st = "failed"]]
  /\ last' = [op |-> "init", inst |-> i, res |-> err, changed |-> FALSE]
  /\ UNCHANGED <<fdtable, released, counter, kflags, closed>>

\* eventfd.__init__ without the line that sets EFD_SEMAPHORE.
eventfd_flags_nosem(semaphore, nonBlocking) ==
  IF nonBlocking THEN {"EFD_NONBLOCK"} ELSE {}

\* eventfd.__init__ without the line that sets EFD_NONBLOCK.
eventfd_flags_block(semaphore, nonBlocking) ==
  IF semaphore THEN {"EFD_SEMAPHORE"} ELSE {}

\* eventfd.__init__: flags |= EFD_NONBLOCK / EFD_SEMAPHORE (close-on-exec has
\* no effect without an exec and is left out)
eventfd_flags(semaphore, nonBlocking) ==
  (IF nonBlocking THEN {"EFD_NONBLOCK"} ELSE {})
    \cup (IF semaphore THEN {"EFD_SEMAPHORE"} ELSE {})

\* eventfd.__init__ with the creation call moved before the conversion of
\* initval: when int(initval) raises, the descriptor is open and self._fd unset.
eventfd_init_early(i, isint, initval, semaphore, nonBlocking, nomem) ==
  /\ IsNext(i)
  /\ LET o == [NoObj EXCEPT !.kind = "eventfd", !.isNonBlocking = nonBlocking,
                            !.isSemaphore = semaphore]
     IN IF isint THEN Create(i, o, nomem, Clip(initval),
                             eventfd_flags(semaphore, nonBlocking))
        ELSE /\ objs' = [objs EXCEPT ![i] = [o EXCEPT !.st = "failed"]]
             /\ fdtable' = IF K_create_res(nomem) = "ok"
                           THEN [fdtable EXCEPT ![K_lowest_free] = i] ELSE fdtable
             /\ last' = [op |-> "init", inst |-> i, res |-> "EINVAL",
                         changed |-> (K_create_res(nomem) = "ok")]
             /\ UNCHANGED <<released, counter, kflags, closed>>

\* eventfd.__init__(initval, semaphore, nonBlocking); isint: int(initval) works
eventfd_init(i, isint, initval, semaphore, nonBlocking, nomem) ==
  /\ IsNext(i)
  /\ LET o == [NoObj EXCEPT !.kind = "eventfd", !.isNonBlocking = nonBlocking,
                            !.isSemaphore = semaphore]
     IN IF ~isint THEN Raise(i, o, "EINVAL")
        ELSE Create(i, o, nomem, Clip(initval), eventfd_flags(semaphore, nonBlocking))

\* The signals, and a number that is no signal.
Sigs == {"SIGINT", "SIGALRM"}
NoSig == "NOSIG"
\* what a caller passes as signalset: <<FALSE, <<>>>> for an object that does
\* not convert (not iterable, or an item int() rejects), <<TRUE, s>> for the
\* iterables s: empty, one signal, two signals, one signal twice, no signal
SigArgs == {<<FALSE, <<>>>>} \cup
           {<<TRUE, s>> : s \in {<<>>, <<"SIGINT">>, <<"SIGALRM", "SIGINT">>,
                                  <<"SIGINT", "SIGINT">>, <<NoSig>>}}
\* set(signalset)
ToSet(seq) == {seq[n] : n \in 1..Len(seq)}

\* signalfd_c.signalfd: a signal set that is empty or holds a number that is
\* no signal is rejected
K_sigset_res(S) == IF S = {} \/ ~(S \subseteq Sigs) THEN "EINVAL" ELSE "ok"

\* flags |= SFD_NONBLOCK / SFD_CLOEXEC
signalfd_flags(nonBlocking, closeOnExec) ==
  (IF nonBlocking THEN {"SFD_NONBLOCK"} ELSE {})
    \cup (IF closeOnExec THEN {"SFD_CLOEXEC"} ELSE {})

\* signalfd.__init__(signalset, nonBlocking, closeOnExec); a: the signalset
\* passed.  self._signalset is assigned before the creation call.
signalfd_init(i, a, nonBlocking, closeOnExec, nomem) ==
  /\ IsNext(i)
  /\ LET o == [NoObj EXCEPT !.kind = "signalfd", !.isNonBlocking = nonBlocking,
                            !.isCloseOnExec = closeOnExec]
         os == [o EXCEPT !.signalset = ToSet(a[2])]
     IN IF ~a[1] THEN Raise(i, o, "EINVAL")
        ELSE IF K_sigset_res(ToSet(a[2])) # "ok" THEN Raise(i, os, K_sigset_res(ToSet(a[2])))
        ELSE Create(i, os, nomem, 0,
                    signalfd_flags(nonBlocking, closeOnExec) \cup ToSet(a[2]))

\* timerfd.__init__ that never passes TFD_NONBLOCK
timerfd_flags_block(nonBlocking) == {}

\* timerfd.__init__: flags = 0; if self._isNonBlocking: flags |= TFD_NONBLOCK
timerfd_flags(nonBlocking) == IF nonBlocking THEN {"TFD_NONBLOCK"} ELSE {}

\* timerfd.__init__(rtc, nonBlocking)
timerfd_init(i, nonBlocking, nomem) ==
  /\ IsNext(i)
  /\ LET o == [NoObj EXCEPT !.kind = "timerfd", !.isNonBlocking = nonBlocking]
     IN Create(i, o, nomem, 0, timerfd_flags(nonBlocking))

\* inotify.__init__(nonBlocking)
inotify_init(i, nonBlocking, nomem) ==
  /\ IsNext(i)
  /\ LET o == [NoObj EXCEPT !.kind = "inotify", !.isNonBlocking = nonBlocking]
     IN Create(i, o, nomem, 0, IF nonBlocking THEN {"IN_NONBLOCK"} ELSE {})

\* ------------------------------------------------------- close and __del__
\* close() without its try/except: what os.close raises reaches the caller.
close_raising(i) ==
  /\ objs[i].st = "live"
  /\ fdtable' = os_close_fdtable(objs[i].fd)
  /\ released' = os_close_released(objs[i].fd)
  /\ closed' = [closed EXCEPT ![i] = TRUE]
  /\ last' = [op |-> "close", inst |-> i, res |-> os_close_res(objs[i].fd),
              changed |-> (os_close_res(objs[i].fd) = "ok")]
  /\ counter' = os_close_counter(objs[i].fd)
  /\ kflags' = os_close_kflags(objs[i].fd)
  /\ UNCHANGED objs

\* close(): try: os.close(self._fd) / except: pass.  The same four lines in
\* all four classes.
close(i) ==
  /\ objs[i].st = "live"
  /\ fdtable' = os_close_fdtable(objs[i].fd)
  /\ released' = os_close_released(objs[i].fd)
  /\ closed' = [closed EXCEPT ![i] = TRUE]
  /\ last' = [op |-> "close", inst |-> i, res |-> "ok",
              changed |-> (os_close_res(objs[i].fd) = "ok")]
  /\ counter' = os_close_counter(objs[i].fd)
  /\ kflags' = os_close_kflags(objs[i].fd)
  /\ UNCHANGED objs

\* A destroyed object: its attributes are gone; the record keeps its class
\* and the descriptor number it held.
Dead(o) == [NoObj EXCEPT !.kind = o.kind, !.st = "dead", !.fd = o.fd]

\* __del__() that does not call close().
del_noclose(i) ==
  /\ objs[i].st \in {"live", "failed"}
  /\ objs' = [objs EXCEPT ![i] = Dead(@)]
  /\ last' = [op |-> "del", inst |-> i, res |-> "ok", changed |-> FALSE]
  /\ UNCHANGED <<fdtable, released, counter, kflags, closed>>

\* __del__(): self.close().  It runs on every object whose __init__ was
\* entered, also when __init__ raised.
del(i) ==
  /\ objs[i].st \in {"live", "failed"}
  /\ fdtable' = os_close_fdtable(objs[i].fd)
  /\ released' = os_close_released(objs[i].fd)
  /\ counter' = os_close_counter(objs[i].fd)
  /\ kflags' = os_close_kflags(objs[i].fd)
  /\ objs' = [objs EXCEPT ![i] = Dead(@)]
  /\ last' = [op |-> "del", inst |-> i, res |-> "ok",
              changed |-> (os_close_res(objs[i].fd) = "ok")]
  /\ UNCHANGED closed

\* ------------------------------------------------ eventfd data operations
\* kernel: read(fd) through eventfd_c.eventfd_read.  The call acts on whatever
\* object the number fd is open on now.  Result, then the counters afterwards.
\* A blocking read of a zero counter does not return ("blocks").
K_eventfd_read_res(fd) ==
  IF fd \notin DOMAIN fdtable \/ fdtable[fd] = 0 THEN "EBADF"
  ELSE LET o == fdtable[fd] IN
       IF objs[o].kind # "eventfd" THEN "EINVAL"
       ELSE IF counter[o] > 0 THEN "ok"
       ELSE IF "EFD_NONBLOCK" \in kflags[o] THEN "EAGAIN" ELSE "blocks"

K_eventfd_read_counter(fd) ==
  IF K_eventfd_read_res(fd) # "ok" THEN counter
  ELSE LET o == fdtable[fd] IN
       [counter EXCEPT ![o] = IF "EFD_SEMAPHORE" \in kflags[o] THEN @ - 1 ELSE 0]

\* kernel: write(fd, value) through eventfd_c.eventfd_write.
K_eventfd_write_res(fd, value) ==
  IF fd \notin DOMAIN fdtable \/ fdtable[fd] = 0 THEN "EBADF"
  ELSE LET o == fdtable[fd] IN
       IF objs[o].kind # "eventfd" THEN "EINVAL"
       ELSE IF counter[o] + value <= MaxCounter THEN "ok"
       ELSE IF "EFD_NONBLOCK" \in kflags[o] THEN "EAGAIN" ELSE "blocks"

K_eventfd_write_counter(fd, value) ==
  IF K_eventfd_write_res(fd, value) # "ok" THEN counter
  ELSE [counter EXCEPT ![fdtable[fd]] = @ + value]

\* eventfd.read(): return eventfd_c.eventfd_read(self._fd)
eventfd_read(i) ==
  /\ objs[i].st = "live" /\ objs[i].kind = "eventfd"
  /\ K_eventfd_read_res(objs[i].fd) # "blocks"
  /\ counter' = K_eventfd_read_counter(objs[i].fd)
  /\ last' = [op |-> "read", inst |-> i, res |-> K_eventfd_read_res(objs[i].fd),
              changed |-> (counter' # counter)]
  /\ UNCHANGED <<objs, fdtable, released, kflags, closed>>

\* eventfd.write() that hands the kernel the largest value whatever it is given
eventfd_write_value_max(value) == MaxCounter

\* eventfd.write(): the value handed to eventfd_c.eventfd_write
eventfd_write_value(value) == Clip(value)

\* eventfd.write(value); isint: int(value) works
eventfd_write(i, isint, value) ==
  /\ objs[i].st = "live" /\ objs[i].kind = "eventfd"
  /\ IF ~isint
     THEN /\ last' = [op |-> "write", inst |-> i, res |-> "EINVAL", changed |-> FALSE]
          /\ UNCHANGED counter
     ELSE /\ K_eventfd_write_res(objs[i].fd, eventfd_write_value(value)) # "blocks"
          /\ counter' = K_eventfd_write_counter(objs[i].fd, eventfd_write_value(value))
          /\ last' = [op |-> "write", inst |-> i,
                      res |-> K_eventfd_write_res(objs[i].fd, eventfd_write_value(value)),
                      changed |-> (counter' # counter)]
  /\ UNCHANGED <<objs, fdtable, released, kflags, closed>>

\* ------------------------------------------- eventfd: callers and results
\* The eventfd objects are used by threads: a call that cannot complete on a
\* blocking object keeps its thread in the kernel until it can.  Each object
\* has one thread that reads and one that writes.
NoELast == [arg |-> <<FALSE, 0>>, ret |-> 0, woke |-> FALSE]

InitEvt ==
  /\ elast = NoELast
  /\ rpend = [i \in Inst |-> FALSE]
  /\ wpend = [i \in Inst |-> 0]

\* kernel: the value read(fd) returns
K_eventfd_read_ret(fd) ==
  IF K_eventfd_read_res(fd) # "ok" THEN 0
  ELSE LET o == fdtable[fd] IN
       IF "EFD_SEMAPHORE" \in kflags[o] THEN 1 ELSE counter[o]

\* eventfd.read() that calls eventfd_c.eventfd_read and drops its result.
eventfd_read_ret_none(i) == 0

\* eventfd.read(): return eventfd_c.eventfd_read(self._fd)
eventfd_read_ret(i) == K_eventfd_read_ret(objs[i].fd)

\* the constructor, called with initval a
evt_init(i, a, semaphore, nonBlocking, nomem) ==
  /\ eventfd_init(i, a[1], a[2], semaphore, nonBlocking, nomem)
  /\ elast' = [NoELast EXCEPT !.arg = a]
  /\ UNCHANGED <<rpend, wpend>>

\* read() that returns at once (with a value or an error)
evt_read(i) ==
  /\ ~rpend[i]
  /\ eventfd_read(i)
  /\ elast' = [NoELast EXCEPT !.ret = eventfd_read_ret(i)]
  /\ UNCHANGED <<rpend, wpend>>

\* read() on a blocking object whose counter is zero: the thread waits
evt_read_block(i) ==
  /\ objs[i].st = "live" /\ objs[i].kind = "eventfd"
  /\ ~rpend[i]
  /\ K_eventfd_read_res(objs[i].fd) = "blocks"
  /\ rpend' = [rpend EXCEPT ![i] = TRUE]
  /\ last' = [op |-> "blocked", inst |-> i, res |-> "ok", changed |-> FALSE]
  /\ UNCHANGED <<objs, fdtable, released, counter, kflags, closed, elast, wpend>>

\* the blocked read() completes
evt_read_wake(i) ==
  /\ rpend[i]
  /\ eventfd_read(i)
  /\ elast' = [NoELast EXCEPT !.ret = eventfd_read_ret(i), !.woke = TRUE]
  /\ rpend' = [rpend EXCEPT ![i] = FALSE]
  /\ UNCHANGED wpend

\* write(value) that returns at once, called with value a
evt_write(i, a) ==
  /\ wpend[i] = 0
  /\ eventfd_write(i, a[1], a[2])
  /\ elast' = [NoELast EXCEPT !.arg = a]
  /\ UNCHANGED <<rpend, wpend>>

\* write(value) on a blocking object whose counter has no room: the thread
\* waits
evt_write_block(i, a) ==
  /\ objs[i].st = "live" /\ objs[i].kind = "eventfd"
  /\ wpend[i] = 0 /\ a[1]
  /\ K_eventfd_write_res(objs[i].fd, eventfd_write_value(a[2])) = "blocks"
  /\ wpend' = [wpend EXCEPT ![i] = eventfd_write_value(a[2])]
  /\ last' = [op |-> "blocked", inst |-> i, res |-> "ok", changed |-> FALSE]
  /\ UNCHANGED <<objs, fdtable, released, counter, kflags, closed, elast, rpend>>

\* the blocked write() completes
evt_write_wake(i) ==
  /\ wpend[i] # 0
  /\ eventfd_write(i, TRUE, wpend[i])
  /\ elast' = [NoELast EXCEPT !.arg = <<TRUE, wpend[i]>>, !.woke = TRUE]
  /\ wpend' = [wpend EXCEPT ![i] = 0]
  /\ UNCHANGED rpend

\* =============================================================== signalfd
NoSLast == [arg |-> <<FALSE, <<>>>>, nonBlocking |-> FALSE, closeOnExec |-> FALSE,
            ret |-> "none"]

InitSig ==
  /\ spend = <<>>
  /\ sblock = [i \in Inst |-> FALSE]
  /\ slast = NoSLast

\* kernel: signalfd(fd, mask, flags) on an existing descriptor: the result
K_signalfd_modify_res(fd, S) ==
  IF K_sigset_res(S) # "ok" THEN K_sigset_res(S)
  ELSE IF fd \notin DOMAIN fdtable \/ fdtable[fd] = 0 THEN "EBADF"
  ELSE IF objs[fdtable[fd]].kind # "signalfd" THEN "EINVAL"
  ELSE "ok"

\* kernel: signalfd(fd, mask, flags) on an existing descriptor replaces the
\* signal mask of the object in one step.  The flags argument is checked but
\* not applied: the descriptor keeps the flags it was created with.
K_signalfd_modify_kflags(fd, S) ==
  IF K_signalfd_modify_res(fd, S) # "ok" THEN kflags
  ELSE [kflags EXCEPT ![fdtable[fd]] = (@ \ Sigs) \cup S]

\* kernel: the place in the pending signals of the oldest one in the mask of
\* the object behind fd, 0 when none is pending
K_first_pending(fd) ==
  LET m == kflags[fdtable[fd]] \cap Sigs IN
  IF \E n \in 1..Len(spend) : spend[n] \in m
  THEN CHOOSE n \in 1..Len(spend) :
         spend[n] \in m /\ \A k \in 1..(n - 1) : spend[k] \notin m
  ELSE 0

\* kernel: read(fd) through signalfd_c.signalfd_read: result, the signo of
\* the record returned, the pending signals afterwards
K_signalfd_read_res(fd) ==
  IF fd \notin DOMAIN fdtable \/ fdtable[fd] = 0 THEN "EBADF"
  ELSE IF objs[fdtable[fd]].kind # "signalfd" THEN "EINVAL"
  ELSE IF K_first_pending(fd) # 0 THEN "ok"
  ELSE IF "SFD_NONBLOCK" \in kflags[fdtable[fd]] THEN "EAGAIN" ELSE "blocks"

K_signalfd_read_ret(fd) ==
  IF K_signalfd_read_res(fd) = "ok" THEN spend[K_first_pending(fd)] ELSE "none"

K_signalfd_read_spend(fd) ==
  IF K_signalfd_read_res(fd) # "ok" THEN spend
  ELSE LET n == K_first_pending(fd) IN
       SubSeq(spend, 1, n - 1) \o SubSeq(spend, n + 1, Len(spend))

\* the constructor, called with signalset a
sig_init(i, a, nonBlocking, closeOnExec, nomem) ==
  /\ signalfd_init(i, a, nonBlocking, closeOnExec, nomem)
  /\ slast' = [NoSLast EXCEPT !.arg = a, !.nonBlocking = nonBlocking,
                              !.closeOnExec = closeOnExec]
  /\ UNCHANGED <<spend, sblock>>

\* modify(): the attributes afterwards.  The flags are assigned first, the
\* signal set once it converted, self._fd when the kernel call returned
\* (r; it returns the descriptor it was given).
signalfd_modify_attrs(o, a, nonBlocking, closeOnExec, r) ==
  [o EXCEPT !.isNonBlocking = nonBlocking, !.isCloseOnExec = closeOnExec,
            !.signalset = IF a[1] THEN ToSet(a[2]) ELSE @]

\* signalfd.modify(signalset, nonBlocking, closeOnExec)
signalfd_modify(i, a, nonBlocking, closeOnExec) ==
  LET r == IF ~a[1] THEN "EINVAL" ELSE K_signalfd_modify_res(objs[i].fd, ToSet(a[2]))
  IN /\ objs[i].st = "live" /\ objs[i].kind = "signalfd"
     /\ ~sblock[i]
     /\ objs' = [objs EXCEPT ![i] =
                   signalfd_modify_attrs(@, a, nonBlocking, closeOnExec, r)]
     /\ kflags' = IF a[1] THEN K_signalfd_modify_kflags(objs[i].fd, ToSet(a[2]))
                  ELSE kflags
     /\ last' = [op |-> "modify", inst |-> i, res |-> r, changed |-> (kflags' # kflags)]
     /\ slast' = [NoSLast EXCEPT !.arg = a, !.nonBlocking = nonBlocking,
                                 !.closeOnExec = closeOnExec]
     /\ UNCHANGED <<fdtable, released, counter, closed, spend, sblock>>

\* signalfd.read(): return signalfd_c.signalfd_read(self._fd); the record
\* is modelled by its signo
signalfd_read(i) ==
  /\ objs[i].st = "live" /\ objs[i].kind = "signalfd"
  /\ K_signalfd_read_res(objs[i].fd) # "blocks"
  /\ spend' = K_signalfd_read_spend(objs[i].fd)
  /\ last' = [op |-> "read", inst |-> i, res |-> K_signalfd_read_res(objs[i].fd),
              changed |-> (spend' # spend)]
  /\ slast' = [NoSLast EXCEPT !.ret = K_signalfd_read_ret(objs[i].fd)]
  /\ UNCHANGED <<objs, fdtable, released, counter, kflags, closed>>

\* read() that returns at once
sig_read(i) == ~sblock[i] /\ signalfd_read(i) /\ UNCHANGED sblock

\* read() with no watched signal pending on a blocking descriptor: the
\* thread waits
sig_read_block(i) ==
  /\ objs[i].st = "live" /\ objs[i].kind = "signalfd"
  /\ ~sblock[i]
  /\ K_signalfd_read_res(objs[i].fd) = "blocks"
  /\ sblock' = [sblock EXCEPT ![i] = TRUE]
  /\ last' = [op |-> "blocked", inst |-> i, res |-> "ok", changed |-> FALSE]
  /\ UNCHANGED <<objs, fdtable, released, counter, kflags, closed, spend, slast>>

\* the blocked read() completes
sig_read_wake(i) ==
  /\ sblock[i]
  /\ signalfd_read(i)
  /\ sblock' = [sblock EXCEPT ![i] = FALSE]

\* a signal is sent to the process, which has all signals blocked: it stays
\* pending (a signal that is pending already is not queued again)
K_raise(sig) ==
  /\ \A n \in 1..Len(spend) : spend[n] # sig
  /\ spend' = Append(spend, sig)
  /\ last' = [op |-> "env", inst |-> 0, res |-> "ok", changed |-> FALSE]
  /\ UNCHANGED <<objs, fdtable, released, counter, kflags, closed, sblock, slast>>

\* ================================================================ timerfd
\* Time is counted in clock ticks.  MaxTime is the longest delay and interval
\* a caller passes, MaxExp the most expirations left unread.
MaxTime == 2
MaxExp == 2

\* what a caller passes as value and as interval; -1 stands for a negative one
TimeArgs == -1..MaxTime

NoTLast == [value |-> 0, interval |-> 0, absolute |-> FALSE,
            ret |-> <<0, 0>>, count |-> 0]

\* a timer is created disarmed
InitTmr ==
  /\ tval = [i \in Inst |-> 0]
  /\ tint = [i \in Inst |-> 0]
  /\ texp = [i \in Inst |-> 0]
  /\ tblock = [i \in Inst |-> FALSE]
  /\ tlast = NoTLast
  /\ tdue = [i \in Inst |-> 0]

\* kernel: timerfd_gettime(fd) through timerfd_c.timerfd_gettime: the result
\* and the (value, interval) pair returned
K_timerfd_gettime_res(fd) ==
  IF fd \notin DOMAIN fdtable \/ fdtable[fd] = 0 THEN "EBADF"
  ELSE IF objs[fdtable[fd]].kind # "timerfd" THEN "EINVAL" ELSE "ok"

K_timerfd_gettime_ret(fd) ==
  IF K_timerfd_gettime_res(fd) # "ok" THEN <<0, 0>>
  ELSE <<tval[fdtable[fd]], tint[fdtable[fd]]>>

\* kernel: timerfd_settime(fd, flags, value, interval) through
\* timerfd_c.timerfd_settime.  In one step it returns the setting the timer
\* has, installs the new one and drops the expirations not read.  A zero
\* value disarms.  With TFD_TIMER_ABSTIME the timer expires when the clock,
\* which reads now at the call, reaches value; a timer whose time has come
\* at the call expires at once.
K_timerfd_settime_res(fd, value, interval) ==
  IF fd \notin DOMAIN fdtable \/ fdtable[fd] = 0 THEN "EBADF"
  ELSE IF objs[fdtable[fd]].kind # "timerfd" THEN "EINVAL"
  ELSE IF value < 0 \/ interval < 0 THEN "EINVAL" ELSE "ok"

K_timerfd_settime_ret(fd, value, interval) ==
  IF K_timerfd_settime_res(fd, value, interval) # "ok" THEN <<0, 0>>
  ELSE <<tval[fdtable[fd]], tint[fdtable[fd]]>>

\* the ticks from the call to the first expiration
K_delay(flags, value, now) ==
  IF "TFD_TIMER_ABSTIME" \in flags THEN value - now ELSE value

K_timerfd_settime_tval(fd, flags, value, interval, now) ==
  IF K_timerfd_settime_res(fd, value, interval) # "ok" THEN tval
  ELSE [tval EXCEPT ![fdtable[fd]] =
          IF value = 0 THEN 0
          ELSE IF K_delay(flags, value, now) > 0 THEN K_delay(flags, value, now)
          ELSE interval]

K_timerfd_settime_tint(fd, value, interval) ==
  IF K_timerfd_settime_res(fd, value, interval) # "ok" THEN tint
  ELSE [tint EXCEPT ![fdtable[fd]] = interval]

K_timerfd_settime_texp(fd, flags, value, interval, now) ==
  IF K_timerfd_settime_res(fd, value, interval) # "ok" THEN texp
  ELSE [texp EXCEPT ![fdtable[fd]] =
          IF value > 0 /\ K_delay(flags, value, now) <= 0 THEN 1 ELSE 0]

\* kernel: read(fd) through timerfd_c.timerfd_read: the result, the count
\* returned and the expirations left
K_timerfd_read_res(fd) ==
  IF fd \notin DOMAIN fdtable \/ fdtable[fd] = 0 THEN "EBADF"
  ELSE LET o == fdtable[fd] IN
       IF objs[o].kind # "timerfd" THEN "EINVAL"
       ELSE IF texp[o] > 0 THEN "ok"
       ELSE IF "TFD_NONBLOCK" \in kflags[o] THEN "EAGAIN" ELSE "blocks"

K_timerfd_read_ret(fd) ==
  IF K_timerfd_read_res(fd) # "ok" THEN 0 ELSE texp[fdtable[fd]]

K_timerfd_read_texp(fd) ==
  IF K_timerfd_read_res(fd) # "ok" THEN texp ELSE [texp EXCEPT ![fdtable[fd]] = 0]

\* the constructor
tmr_init(i, nonBlocking, nomem) ==
  /\ timerfd_init(i, nonBlocking, nomem)
  /\ tlast' = NoTLast
  /\ UNCHANGED <<tval, tint, texp, tblock, tdue>>

\* timerfd.gettime(): return timerfd_c.timerfd_gettime(self._fd)
timerfd_gettime(i) ==
  /\ objs[i].st = "live" /\ objs[i].kind = "timerfd"
  /\ last' = [op |-> "gettime", inst |-> i,
              res |-> K_timerfd_gettime_res(objs[i].fd), changed |-> FALSE]
  /\ tlast' = [NoTLast EXCEPT !.ret = K_timerfd_gettime_ret(objs[i].fd)]
  /\ UNCHANGED <<objs, fdtable, released, counter, kflags, closed,
                 tval, tint, texp, tblock, tdue>>

\* timerfd.settime: flags = TFD_TIMER_ABSTIME if bool(absolute) else 0
timerfd_settime_flags(absolute) ==
  IF absolute THEN {"TFD_TIMER_ABSTIME"} ELSE {}

\* timerfd.settime() that returns the setting it was called with
timerfd_settime_ret_new(i, value, interval) == <<value, interval>>

\* timerfd.settime(): return timerfd_c.timerfd_settime(self._fd, flags, value, interval)
timerfd_settime_ret(i, value, interval) ==
  K_timerfd_settime_ret(objs[i].fd, value, interval)

\* timerfd.settime(value, interval, absolute), called when the clock reads now
timerfd_settime(i, value, interval, absolute, now) ==
  LET fd == objs[i].fd
      flags == timerfd_settime_flags(absolute)
  IN /\ objs[i].st = "live" /\ objs[i].kind = "timerfd"
     /\ tval' = K_timerfd_settime_tval(fd, flags, value, interval, now)
     /\ tint' = K_timerfd_settime_tint(fd, value, interval)
     /\ texp' = K_timerfd_settime_texp(fd, flags, value, interval, now)
     /\ tdue' = IF K_timerfd_settime_res(fd, value, interval) # "ok" THEN tdue
                ELSE [tdue EXCEPT ![fdtable[fd]] = texp'[fdtable[fd]]]
     /\ last' = [op |-> "settime", inst |-> i,
                 res |-> K_timerfd_settime_res(fd, value, interval),
                 changed |-> (<<tval', tint', texp'>> # <<tval, tint, texp>>)]
     /\ tlast' = [NoTLast EXCEPT !.value = value, !.interval = interval,
                                 !.absolute = absolute,
                                 !.ret = timerfd_settime_ret(i, value, interval)]
     /\ UNCHANGED <<objs, fdtable, released, counter, kflags, closed, tblock>>

\* timerfd.read() that returns 1 for every read that succeeds
timerfd_read_ret_one(i) == IF K_timerfd_read_res(objs[i].fd) = "ok" THEN 1 ELSE 0

\* timerfd.read(): return timerfd_c.timerfd_read(self._fd)
timerfd_read_ret(i) == K_timerfd_read_ret(objs[i].fd)

\* timerfd.read()
timerfd_read(i) ==
  /\ objs[i].st = "live" /\ objs[i].kind = "timerfd"
  /\ K_timerfd_read_res(objs[i].fd) # "blocks"
  /\ texp' = K_timerfd_read_texp(objs[i].fd)
  /\ last' = [op |-> "read", inst |-> i, res |-> K_timerfd_read_res(objs[i].fd),
              changed |-> (texp' # texp)]
  /\ tlast' = [NoTLast EXCEPT !.count = timerfd_read_ret(i)]
  /\ tdue' = IF K_timerfd_read_res(objs[i].fd) # "ok" THEN tdue
             ELSE [tdue EXCEPT ![fdtable[objs[i].fd]] = @ - timerfd_read_ret(i)]
  /\ UNCHANGED <<objs, fdtable, released, counter, kflags, closed, tval, tint>>

\* read() that returns at once (with a count or an error)
tmr_read(i) == ~tblock[i] /\ timerfd_read(i) /\ UNCHANGED tblock

\* read() on a blocking object whose timer has not expired: the thread waits
tmr_read_block(i) ==
  /\ objs[i].st = "live" /\ objs[i].kind = "timerfd"
  /\ ~tblock[i]
  /\ K_timerfd_read_res(objs[i].fd) = "blocks"
  /\ tblock' = [tblock EXCEPT ![i] = TRUE]
  /\ last' = [op |-> "blocked", inst |-> i, res |-> "ok", changed |-> FALSE]
  /\ UNCHANGED <<objs, fdtable, released, counter, kflags, closed,
                 tval, tint, texp, tlast, tdue>>

\* the blocked read() completes
tmr_read_wake(i) ==
  /\ tblock[i]
  /\ timerfd_read(i)
  /\ tblock' = [tblock EXCEPT ![i] = FALSE]

\* kernel: the timer of object o expires at this tick
K_expires(o) == tval[o] = 1

\* kernel: one clock tick passes.  Every armed timer comes one tick closer;
\* one that expires counts an expiration and is armed again with its
\* interval, or is disarmed when it has none.
K_tick ==
  /\ \E o \in DOMAIN tval : tval[o] > 0
  /\ \A o \in DOMAIN tval : K_expires(o) => texp[o] < MaxExp
  /\ tval' = [o \in DOMAIN tval |-> IF K_expires(o) THEN tint[o]
                             ELSE IF tval[o] > 0 THEN tval[o] - 1 ELSE 0]
  /\ texp' = [o \in DOMAIN tval |-> IF K_expires(o) THEN texp[o] + 1 ELSE texp[o]]
  /\ tdue' = [o \in DOMAIN tval |-> IF K_expires(o) THEN tdue[o] + 1 ELSE tdue[o]]
  /\ last' = [op |-> "env", inst |-> 0, res |-> "ok", changed |-> FALSE]
  /\ UNCHANGED <<objs, fdtable, released, counter, kflags, closed,
                 tint, tblock, tlast>>

\* ================================================================ inotify
\* what a caller passes as buffersize: <<FALSE, 0>> for an object int()
\* rejects, <<TRUE, n>> for a buffer with room for n events
ReadArgs == {<<FALSE, 0>>} \cup {<<TRUE, n>> : n \in 0..MaxQueue}
\* The registered names and the files they resolve to: /tmp/g is a symbolic
\* link to /tmp/f, /tmp/d is a directory.
Paths == {"/tmp/f", "/tmp/g", "/tmp/d"}
Files == {"F", "D"}
FileOf(p) == IF p = "/tmp/d" THEN "D" ELSE "F"

\* A mask is modelled as the set of its bits.
EventBits == {"IN_MOVED_FROM", "IN_MOVED_TO"}
IN_MOVE == {"IN_MOVED_FROM", "IN_MOVED_TO"}
IN_MASK_ADD == "IN_MASK_ADD"
\* masks a caller passes to add(): no event, one event, both, and one event
\* with IN_MASK_ADD already set
InMasks == {{}, {"IN_MOVED_FROM"}, IN_MOVE, {"IN_MOVED_TO", IN_MASK_ADD}}

Wds == 1..MaxWd
NoWatch == [file |-> "none", mask |-> {}]
NoILast == [op |-> "none", path |-> "", mask |-> {}, replace |-> FALSE,
            res |-> "ok", ret |-> <<>>]

InitIno ==
  /\ wd = <<>>
  /\ inb = TRUE     \* inotify(nonBlocking=True), as in examples/test_linuxfd.py
  /\ kwatch = [w \in Wds |-> NoWatch]
  /\ nextwd = 1
  /\ queue = <<>>
  /\ exists = [f \in Files |-> TRUE]
  /\ cookie = 0
  /\ removed = {}
  /\ ilast = NoILast

\* ------------------------------------------------------- the dict self._wd
DictHas(d, k) == \E n \in 1..Len(d) : d[n].key = k
DictGet(d, k) == d[CHOOSE n \in 1..Len(d) : d[n].key = k].val
\* d[k] = v: an existing key keeps its place, a new key goes to the end
DictSet(d, k, v) ==
  IF DictHas(d, k)
  THEN [n \in 1..Len(d) |-> IF d[n].key = k THEN [key |-> k, val |-> v] ELSE d[n]]
  ELSE Append(d, [key |-> k, val |-> v])
\* del d[k]
DictDel(d, k) == SelectSeq(d, LAMBDA e : e.key # k)
\* tuple(d.keys())
DictKeys(d) == [n \in 1..Len(d) |-> d[n].key]
\* [key for key,value in d.items() if value == w]
KeysOf(d, w) == DictKeys(SelectSeq(d, LAMBDA e : e.val = w))

\* inotify.watchedPaths()
watchedPaths == DictKeys(wd)

\* ------------------------------------------------------- kernel: inotify
\* the descriptor of the watch on file f, 0 when f is not watched
K_watch_of(f) ==
  IF \E w \in Wds : kwatch[w].file = f
  THEN CHOOSE w \in Wds : kwatch[w].file = f
  ELSE 0

\* Queueing an event: a full queue takes one IN_Q_OVERFLOW event (watch
\* descriptor -1) and drops what follows.
K_overflow == [wd |-> -1, mask |-> {"IN_Q_OVERFLOW"}, cookie |-> 0, name |-> ""]
K_push(q, e) ==
  IF Len(q) < MaxQueue THEN Append(q, e)
  ELSE IF q[Len(q)] = K_overflow THEN q
  ELSE Append(q, K_overflow)

\* the bits inotify_add_watch knows: the events and the flags, IN_MASK_ADD
\* among them
K_known_bits == EventBits \cup {IN_MASK_ADD}

\* inotify_add_watch(fd, pathname, mask): result, watch descriptor, watches.
\* The kernel rejects a mask that has none of the bits it knows.
K_add_watch_res(p, m) ==
  IF m \cap K_known_bits = {} THEN "EINVAL"
  ELSE IF ~exists[FileOf(p)] THEN "ENOENT"
  ELSE "ok"

K_add_watch_wd(p, m) ==
  IF K_watch_of(FileOf(p)) # 0 THEN K_watch_of(FileOf(p)) ELSE nextwd

K_add_watch_kwatch(p, m) ==
  LET w == K_add_watch_wd(p, m) IN
  IF K_add_watch_res(p, m) # "ok" THEN kwatch
  ELSE IF K_watch_of(FileOf(p)) # 0 /\ IN_MASK_ADD \in m
       THEN [kwatch EXCEPT ![w].mask = @ \cup (m \cap EventBits)]
       ELSE [kwatch EXCEPT ![w] = [file |-> FileOf(p), mask |-> m \cap EventBits]]

\* inotify_rm_watch(fd, w): fails with EINVAL when the instance holds no watch
\* w; otherwise the watch goes and an IN_IGNORED event is queued for it.
K_rm_watch_res(w) ==
  IF w \in Wds /\ kwatch[w] # NoWatch THEN "ok" ELSE "EINVAL"

K_ignored(w) == [wd |-> w, mask |-> {"IN_IGNORED"}, cookie |-> 0, name |-> ""]

\* ---------------------------------------------------- inotify operations
\* add() with the two branches on replace swapped.
add_mask_swapped(mask, replace) ==
  IF replace THEN mask \cup {IN_MASK_ADD} ELSE mask \ {IN_MASK_ADD}

\* add(): the mask handed to inotify_add_watch
add_mask(mask, replace) ==
  IF replace THEN mask \ {IN_MASK_ADD} ELSE mask \cup {IN_MASK_ADD}

\* add() that stores the new mask's registration under a fresh item even
\* when the pathname is registered already.
add_wd_append(p, w) == Append(wd, [key |-> p, val |-> w])

\* add(): self._wd after self._wd[pathname] = <watch descriptor w>
add_wd(p, w) == DictSet(wd, p, w)

\* inotify.add(pathname, mask, replace)
add(p, mask, replace) ==
  LET m == add_mask(mask, replace)
      r == K_add_watch_res(p, m)
      w == K_add_watch_wd(p, m)
  IN /\ r = "ok" /\ K_watch_of(FileOf(p)) = 0 => nextwd <= MaxWd
     /\ kwatch' = K_add_watch_kwatch(p, m)
     /\ nextwd' = IF r = "ok" /\ K_watch_of(FileOf(p)) = 0 THEN nextwd + 1 ELSE nextwd
     /\ wd' = IF r = "ok" THEN add_wd(p, w) ELSE wd
     /\ ilast' = [NoILast EXCEPT !.op = "add", !.path = p, !.mask = mask,
                                 !.replace = replace, !.res = r]
     /\ UNCHANGED <<inb, queue, exists, cookie, removed>>

\* remove() that looks the pathname up with self._wd.get(pathname): for an
\* unknown pathname the kernel call is made with no usable descriptor.
remove_res_get(p, bindfail) ==
  IF bindfail THEN "TypeError"
  ELSE IF ~DictHas(wd, p) THEN "EINVAL"
  ELSE K_rm_watch_res(DictGet(wd, p))

\* remove(): how the call ends.  The source hands inotify_rm_watch the watch
\* descriptor alone; the binding either rejects that call (bindfail) or
\* removes the watch of this instance.
remove_res(p, bindfail) ==
  IF ~DictHas(wd, p) THEN "KeyError"
  ELSE IF bindfail THEN "TypeError"
  ELSE K_rm_watch_res(DictGet(wd, p))

\* remove(): self._wd afterwards (del self._wd[pathname] runs after the call
\* returned)
remove_wd(p, bindfail) ==
  IF remove_res(p, bindfail) = "ok" THEN DictDel(wd, p) ELSE wd

\* inotify.remove(pathname)
remove(p, bindfail) ==
  LET r == remove_res(p, bindfail)
      w == IF DictHas(wd, p) THEN DictGet(wd, p) ELSE 0
  IN /\ kwatch' = IF r = "ok" THEN [kwatch EXCEPT ![w] = NoWatch] ELSE kwatch
     /\ queue' = IF r = "ok" THEN K_push(queue, K_ignored(w)) ELSE queue
     /\ wd' = remove_wd(p, bindfail)
     /\ removed' = IF r = "ok" THEN removed \cup {p} ELSE removed
     /\ ilast' = [NoILast EXCEPT !.op = "remove", !.path = p, !.res = r]
     /\ UNCHANGED <<inb, nextwd, exists, cookie>>

\* read(): the loop over the events the kernel returned.  The reverse look-up
\* [...][0] raises IndexError when no key maps to the event's descriptor.
read_loop(batch) ==
  IF \E j \in 1..Len(batch) : KeysOf(wd, batch[j].wd) = <<>>
  THEN [res |-> "IndexError", ret |-> <<>>]
  ELSE [res |-> "ok",
        ret |-> [j \in 1..Len(batch) |->
                   [pathname |-> KeysOf(wd, batch[j].wd)[1], name |-> batch[j].name,
                    mask |-> batch[j].mask, cookie |-> batch[j].cookie]]]

\* inotify.read(buffersize); isint: int(buffersize) works; n: the events the
\* buffer has room for
read(isint, n) ==
  /\ IF ~isint
     THEN /\ ilast' = [NoILast EXCEPT !.op = "read", !.res = "ValueError"]
          /\ UNCHANGED queue
     ELSE IF queue = <<>>
     THEN /\ inb     \* a blocking read of an empty queue does not return
          /\ ilast' = [NoILast EXCEPT !.op = "read", !.res = "EAGAIN"]
          /\ UNCHANGED queue
     ELSE IF n = 0
     THEN /\ ilast' = [NoILast EXCEPT !.op = "read", !.res = "EINVAL"]
          /\ UNCHANGED queue
     ELSE LET k == Min(n, Len(queue))
              batch == SubSeq(queue, 1, k)
          IN /\ queue' = SubSeq(queue, k + 1, Len(queue))
             /\ ilast' = [NoILast EXCEPT !.op = "read",
                                         !.res = read_loop(batch).res,
                                         !.ret = read_loop(batch).ret]
  /\ UNCHANGED <<wd, inb, kwatch, nextwd, exists, cookie, removed>>

\* ------------------------------------------------- inotify's environment
EnvStep == [NoILast EXCEPT !.op = "env"]

\* in the directory, x is renamed to y: the watch on the directory gets the
\* events its mask asks for, both with the cookie of this rename
K_rename ==
  LET w == K_watch_of("D")
      from == [wd |-> w, mask |-> {"IN_MOVED_FROM"}, cookie |-> cookie + 1, name |-> "x"]
      to == [wd |-> w, mask |-> {"IN_MOVED_TO"}, cookie |-> cookie + 1, name |-> "y"]
      q1 == IF "IN_MOVED_FROM" \in kwatch[w].mask THEN K_push(queue, from) ELSE queue
  IN /\ exists["D"] /\ cookie < MaxCookie
     /\ w # 0
     /\ cookie' = cookie + 1
     /\ queue' = IF "IN_MOVED_TO" \in kwatch[w].mask THEN K_push(q1, to) ELSE q1
     /\ ilast' = EnvStep
     /\ UNCHANGED <<wd, inb, kwatch, nextwd, exists, removed>>

\* file f is deleted: the kernel drops its watch and queues IN_IGNORED
K_delete(f) ==
  LET w == K_watch_of(f) IN
  /\ exists[f]
  /\ exists' = [exists EXCEPT ![f] = FALSE]
  /\ kwatch' = IF w # 0 THEN [kwatch EXCEPT ![w] = NoWatch] ELSE kwatch
  /\ queue' = IF w # 0 THEN K_push(queue, K_ignored(w)) ELSE queue
  /\ ilast' = EnvStep
  /\ UNCHANGED <<wd, inb, nextwd, cookie, removed>>

\* ================================================== examples/test.py
\* The example program: a non-blocking eventfd, a non-blocking signalfd for
\* SIGINT and a non-blocking timerfd, registered with an epoll object and
\* served by one loop.  The objects of the program, in the order it makes
\* them, and the period it gives the timer:
EFD == 1
SFD == 2
TFD == 3
LoopPeriod == 3
LoopInst == {EFD, SFD, TFD}

\* the loop before it is started
InitLoopVars ==
  /\ pc = "poll"
  /\ events = <<>>
  /\ isrunning = TRUE
  /\ sawint = FALSE

\* The program at its line 36: the three objects are made (each got the
\* lowest free descriptor), the timer is set with tfd.settime(3,3), SIGINT is
\* blocked, the descriptors are registered.
InitLoop ==
  /\ objs = [i \in LoopInst |->
              IF i = EFD
              THEN [NoObj EXCEPT !.kind = "eventfd", !.st = "live", !.fd = i,
                                 !.isNonBlocking = TRUE]
              ELSE IF i = SFD
              THEN [NoObj EXCEPT !.kind = "signalfd", !.st = "live", !.fd = i,
                                 !.isNonBlocking = TRUE,
                                 !.signalset = ToSet(<<"SIGINT">>)]
              ELSE [NoObj EXCEPT !.kind = "timerfd", !.st = "live", !.fd = i,
                                 !.isNonBlocking = TRUE]]
  /\ fdtable = [f \in LoopInst |-> f]
  /\ released = [i \in LoopInst |-> 0]
  /\ counter = [i \in LoopInst |-> Clip(0)]
  /\ kflags = [i \in LoopInst |->
                IF i = EFD THEN eventfd_flags(FALSE, TRUE)
                ELSE IF i = SFD
                THEN signalfd_flags(TRUE, FALSE) \cup ToSet(<<"SIGINT">>)
                ELSE timerfd_flags(TRUE)]
  /\ closed = [i \in LoopInst |-> FALSE]
  /\ last = [op |-> "settime", inst |-> TFD, res |-> "ok", changed |-> TRUE]
  /\ elast = NoELast
  /\ rpend = [i \in LoopInst |-> FALSE]
  /\ wpend = [i \in LoopInst |-> 0]
  /\ spend = <<>>
  /\ sblock = [i \in LoopInst |-> FALSE]
  /\ slast = NoSLast
  /\ tval = [i \in LoopInst |-> IF i = TFD THEN LoopPeriod ELSE 0]
  /\ tint = [i \in LoopInst |-> IF i = TFD THEN LoopPeriod ELSE 0]
  /\ texp = [i \in LoopInst |-> 0]
  /\ tblock = [i \in LoopInst |-> FALSE]
  /\ tlast = [NoTLast EXCEPT !.value = LoopPeriod, !.interval = LoopPeriod]
  /\ tdue = [i \in LoopInst |-> 0]
  /\ InitLoopVars
  /\ InitIno

\* epoll: descriptor fd is reported with EPOLLIN when a read of it would
\* return data
K_readable(fd) ==
  /\ fd \in DOMAIN fdtable /\ fdtable[fd] # 0
  /\ LET o == fdtable[fd] IN
       \/ objs[o].kind = "eventfd" /\ counter[o] > 0
       \/ objs[o].kind = "signalfd" /\ K_first_pending(fd) # 0
       \/ objs[o].kind = "timerfd" /\ texp[o] > 0

\* epoll: the lists epl.poll(-1) can return: the registered descriptors
\* that are readable, in some order
K_poll ==
  LET R == {objs[i].fd : i \in {j \in LoopInst : K_readable(objs[j].fd)}}
  IN {s \in [1..Cardinality(R) -> R] :
        \A m, n \in 1..Cardinality(R) : m # n => s[m] # s[n]}

\* the branch of the if statement the pair (fd, EPOLLIN) takes
loop_branch(fd) ==
  IF fd = objs[EFD].fd THEN "efd"
  ELSE IF fd = objs[SFD].fd THEN "sfd"
  ELSE IF fd = objs[TFD].fd THEN "tfd" ELSE "none"

\* a loop in which every branch ends with isrunning = False
loop_isrunning_any(branch, running) == FALSE

\* isrunning after a branch: only the one of the eventfd sets it to False
loop_isrunning(branch, running) == IF branch = "efd" THEN FALSE ELSE running

\* where the program goes on after a branch of the for loop: with the next
\* event, and after the last one with the test of the while loop
loop_pc(evs, running) ==
  IF evs # <<>> THEN "dispatch" ELSE IF running THEN "poll" ELSE "done"

\* a call raised: nothing catches the exception, the program ends
loop_after(res, evs, running) ==
  IF res # "ok" THEN "raised" ELSE loop_pc(evs, running)

\* events = epl.poll(-1): blocks until a registered descriptor is readable
loop_poll ==
  /\ pc = "poll"
  /\ \E s \in K_poll :
       /\ s # <<>>
       /\ events' = s
  /\ pc' = "dispatch"
  /\ last' = [op |-> "poll", inst |-> 0, res |-> "ok", changed |-> FALSE]
  /\ UNCHANGED <<objs, fdtable, released, counter, kflags, closed,
                 isrunning, sawint, inoVars, evtVars, sigVars, tmrVars>>

\* branch of the eventfd: efd.read(); isrunning = False
loop_efd ==
  /\ pc = "dispatch" /\ loop_branch(Head(events)) = "efd"
  /\ evt_read(EFD)
  /\ events' = Tail(events)
  /\ isrunning' = IF last'.res = "ok" THEN loop_isrunning("efd", isrunning)
                  ELSE isrunning
  /\ pc' = loop_after(last'.res, events', isrunning')
  /\ UNCHANGED <<sawint, inoVars, sigVars, tmrVars>>

\* branch of the signalfd, first call: siginfo = sfd.read()
loop_sfd_read ==
  /\ pc = "dispatch" /\ loop_branch(Head(events)) = "sfd"
  /\ sig_read(SFD)
  /\ events' = Tail(events)
  /\ isrunning' = IF last'.res = "ok" THEN loop_isrunning("sfd", isrunning)
                  ELSE isrunning
  /\ sawint' = (sawint \/ slast'.ret = "SIGINT")
  /\ pc' = IF last'.res = "ok" /\ slast'.ret = "SIGINT" THEN "write"
           ELSE loop_after(last'.res, events', isrunning')
  /\ UNCHANGED <<inoVars, evtVars, tmrVars>>

\* branch of the signalfd, second call: efd.write(1)
loop_sfd_write ==
  /\ pc = "write"
  /\ evt_write(EFD, <<TRUE, 1>>)
  /\ pc' = loop_after(last'.res, events, isrunning)
  /\ UNCHANGED <<events, isrunning, sawint, inoVars, sigVars, tmrVars>>

\* branch of the timerfd: tfd.read()
loop_tfd ==
  /\ pc = "dispatch" /\ loop_branch(Head(events)) = "tfd"
  /\ tmr_read(TFD)
  /\ events' = Tail(events)
  /\ isrunning' = IF last'.res = "ok" THEN loop_isrunning("tfd", isrunning)
                  ELSE isrunning
  /\ pc' = loop_after(last'.res, events', isrunning')
  /\ UNCHANGED <<sawint, inoVars, evtVars, sigVars>>

\* ======================================================== specifications
Init == InitLife /\ InitIno /\ InitEvt /\ InitSig /\ InitTmr /\ InitLoopVars

\* The lifecycle is explored with eventfd objects of both blocking modes (the
\* mode decides how their read() and write() end); the flags of the other
\* three kinds, whose data operations are not part of this specification, and
\* the semaphore flag are left at their defaults; a signalfd is constructed
\* with a set that does not convert or with the set of one signal.
Next ==
  \/ \E i \in Inst, a \in IntArgs, nb \in BOOLEAN, nomem \in BOOLEAN :
       eventfd_init(i, a[1], a[2], FALSE, nb, nomem) /\ UNCHANGED <<inoVars, dataVars>>
  \/ \E i \in Inst, a \in {<<FALSE, <<>>>>, <<TRUE, <<"SIGINT">>>>}, nomem \in BOOLEAN :
       signalfd_init(i, a, FALSE, FALSE, nomem) /\ UNCHANGED <<inoVars, dataVars>>
  \/ \E i \in Inst, nomem \in BOOLEAN :
       timerfd_init(i, FALSE, nomem) /\ UNCHANGED <<inoVars, dataVars>>
  \/ \E i \in Inst, nomem \in BOOLEAN :
       inotify_init(i, FALSE, nomem) /\ UNCHANGED <<inoVars, dataVars>>
  \/ \E i \in Inst : close(i) /\ UNCHANGED <<inoVars, dataVars>>
  \/ \E i \in Inst : del(i) /\ UNCHANGED <<inoVars, dataVars>>
  \/ \E i \in Inst : eventfd_read(i) /\ UNCHANGED <<inoVars, dataVars>>
  \/ \E i \in Inst, a \in IntArgs : eventfd_write(i, a[1], a[2]) /\ UNCHANGED <<inoVars, dataVars>>

Spec == Init /\ [][Next]_vars

\* One eventfd object and the threads that use it.
EvtInst == {CHOOSE i \in Inst : \A j \in Inst : i <= j}

NextEvt ==
  \/ \E i \in EvtInst, a \in IntArgs, sem \in BOOLEAN, nb \in BOOLEAN, nomem \in BOOLEAN :
       evt_init(i, a, sem, nb, nomem) /\ UNCHANGED <<inoVars, sigVars, tmrVars, loopVars>>
  \/ \E i \in EvtInst : evt_read(i) /\ UNCHANGED <<inoVars, sigVars, tmrVars, loopVars>>
  \/ \E i \in EvtInst : evt_read_block(i) /\ UNCHANGED <<inoVars, sigVars, tmrVars, loopVars>>
  \/ \E i \in EvtInst : evt_read_wake(i) /\ UNCHANGED <<inoVars, sigVars, tmrVars, loopVars>>
  \/ \E i \in EvtInst, a \in IntArgs : evt_write(i, a) /\ UNCHANGED <<inoVars, sigVars, tmrVars, loopVars>>
  \/ \E i \in EvtInst, a \in IntArgs : evt_write_block(i, a) /\ UNCHANGED <<inoVars, sigVars, tmrVars, loopVars>>
  \/ \E i \in EvtInst : evt_write_wake(i) /\ UNCHANGED <<inoVars, sigVars, tmrVars, loopVars>>

\* The kernel completes a blocked call once it can be completed.
FairEvt ==
  \A i \in EvtInst :
    /\ WF_vars(evt_read_wake(i) /\ UNCHANGED <<inoVars, sigVars, tmrVars, loopVars>>)
    /\ WF_vars(evt_write_wake(i) /\ UNCHANGED <<inoVars, sigVars, tmrVars, loopVars>>)

SpecEvt == Init /\ [][NextEvt]_vars /\ FairEvt

\* The program has one signalfd object, used by one thread; signals are
\* sent to the process from outside.
SigInst == {CHOOSE i \in Inst : \A j \in Inst : i <= j}

NextSig ==
  \/ \E i \in SigInst, a \in SigArgs, nb \in BOOLEAN, cx \in BOOLEAN, nomem \in BOOLEAN :
       sig_init(i, a, nb, cx, nomem) /\ UNCHANGED <<inoVars, evtVars, tmrVars, loopVars>>
  \/ \E i \in SigInst, a \in SigArgs, nb \in BOOLEAN, cx \in BOOLEAN :
       signalfd_modify(i, a, nb, cx) /\ UNCHANGED <<inoVars, evtVars, tmrVars, loopVars>>
  \/ \E i \in SigInst : sig_read(i) /\ UNCHANGED <<inoVars, evtVars, tmrVars, loopVars>>
  \/ \E i \in SigInst : sig_read_block(i) /\ UNCHANGED <<inoVars, evtVars, tmrVars, loopVars>>
  \/ \E i \in SigInst : sig_read_wake(i) /\ UNCHANGED <<inoVars, evtVars, tmrVars, loopVars>>
  \/ \E sig \in Sigs : K_raise(sig) /\ UNCHANGED <<inoVars, evtVars, tmrVars, loopVars>>

SpecSig == Init /\ [][NextSig]_vars

\* The timer: one timerfd object, its callers and the clock.  A timerfd call
\* with TFD_TIMER_ABSTIME reads the clock, at some now up to the value given.
TmrInst == {CHOOSE i \in Inst : \A j \in Inst : i <= j}

NextTmr ==
  \/ \E i \in TmrInst, nb \in BOOLEAN, nomem \in BOOLEAN :
       tmr_init(i, nb, nomem) /\ UNCHANGED <<inoVars, evtVars, sigVars, loopVars>>
  \/ \E i \in TmrInst, value \in TimeArgs, interval \in TimeArgs, absolute \in BOOLEAN :
       \E now \in (IF absolute THEN 0..Max(value, 0) ELSE {0}) :
         timerfd_settime(i, value, interval, absolute, now)
           /\ UNCHANGED <<inoVars, evtVars, sigVars, loopVars>>
  \/ \E i \in TmrInst : timerfd_gettime(i) /\ UNCHANGED <<inoVars, evtVars, sigVars, loopVars>>
  \/ \E i \in TmrInst : tmr_read(i) /\ UNCHANGED <<inoVars, evtVars, sigVars, loopVars>>
  \/ \E i \in TmrInst : tmr_read_block(i) /\ UNCHANGED <<inoVars, evtVars, sigVars, loopVars>>
  \/ \E i \in TmrInst : tmr_read_wake(i) /\ UNCHANGED <<inoVars, evtVars, sigVars, loopVars>>
  \/ K_tick /\ UNCHANGED <<inoVars, evtVars, sigVars, loopVars>>

\* The clock goes on, and a thread blocked in read() is woken when the timer
\* has expired.
FairTmr ==
  /\ WF_vars(K_tick /\ UNCHANGED <<inoVars, evtVars, sigVars, loopVars>>)
  /\ \A i \in TmrInst :
       WF_vars(tmr_read_wake(i) /\ UNCHANGED <<inoVars, evtVars, sigVars, loopVars>>)

SpecTmr == Init /\ [][NextTmr]_vars /\ FairTmr

\* The example program, the clock, and SIGINT sent to the process from
\* outside.
NextLoop ==
  \/ loop_poll
  \/ loop_efd
  \/ loop_sfd_read
  \/ loop_sfd_write
  \/ loop_tfd
  \/ K_raise("SIGINT") /\ UNCHANGED <<inoVars, evtVars, tmrVars, loopVars>>
  \/ K_tick /\ UNCHANGED <<inoVars, evtVars, sigVars, loopVars>>

\* The program is one thread that runs whenever it can.
FairLoop ==
  WF_vars(loop_poll \/ loop_efd \/ loop_sfd_read \/ loop_sfd_write \/ loop_tfd)

SpecLoop == InitLoop /\ [][NextLoop]_vars /\ FairLoop

NextIno ==
  \/ \E p \in Paths, m \in InMasks, replace \in BOOLEAN :
       add(p, m, replace) /\ UNCHANGED <<lifeVars, dataVars>>
  \/ \E p \in Paths, bindfail \in BOOLEAN : remove(p, bindfail) /\ UNCHANGED <<lifeVars, dataVars>>
  \/ \E a \in ReadArgs : read(a[1], a[2]) /\ UNCHANGED <<lifeVars, dataVars>>
  \/ K_rename /\ UNCHANGED <<lifeVars, dataVars>>
  \/ \E f \in Files : K_delete(f) /\ UNCHANGED <<lifeVars, dataVars>>

SpecIno == Init /\ [][NextIno]_vars

\* ================================================================= claims
\* the descriptors open on the kernel object that instance i created
OpenOn(i) == {f \in Fds : fdtable[f] = i}

C2_CloseIdempotent ==
  /\ last.op \in {"close", "del"} => last.res = "ok"
  /\ \A i \in Inst : closed[i] => released[i] = 1 /\ OpenOn(i) = {}

\* C2 witness: a repeated close(): the instance was closed before and this
\* call released nothing.
C2_Witness ==
  /\ last.op = "close" /\ ~last.changed
  /\ objs[last.inst].st = "live" /\ released[last.inst] = 1

\* C3: a constructor that raises leaves the descriptor table as it was and
\* the object without self._fd, and the destruction of that partial object
\* leaves the descriptor table as it was.
C3_FailedInitNoLeak ==
  [][\A i \in Inst :
       /\ (objs[i].st = "none" /\ objs'[i].st = "failed")
            => (fdtable' = fdtable /\ objs'[i].fd = Unset /\ last'.res # "ok")
       /\ (objs[i].st = "failed" /\ objs'[i].st = "dead") => fdtable' = fdtable]_vars

\* C3 witness: a partial object has been destroyed while another instance
\* holds an open descriptor.
C3_Witness ==
  \E i, j \in Inst :
    /\ objs[i].st = "dead" /\ objs[i].fd = Unset
    /\ objs[j].st = "live" /\ OpenOn(j) # {}

\* C4 (as claimed): once close() has been called on an instance, every later
\* read() or write() on it (with an argument int() accepts) fails with EBADF
\* and changes no kernel object.
C4_ClosedFailsEBADF ==
  (last.op \in {"read", "write"} /\ closed[last.inst] /\ last.res # "EINVAL")
    => (last.res = "EBADF" /\ ~last.changed)

\* the kernel holds watch w of this instance
Held(w) == w \in Wds /\ kwatch[w] # NoWatch
\* the errors that come from the kernel (OSError)
OSErrors == {"EINVAL", "EBADF", "ENOENT", "ENOSPC", "EAGAIN", "ENOMEM", "EMFILE"}
\* how often pathname p occurs in watchedPaths()
Count(keys, p) == Cardinality({n \in 1..Len(keys) : keys[n] = p})

\* C5 (as claimed): the dict and the kernel's watches correspond one to one:
\* every watch the kernel holds is the value of exactly one pathname, and
\* every pathname maps to a watch the kernel holds.
C5_MappingOneToOne ==
  /\ \A w \in Wds : Held(w) => Len(KeysOf(wd, w)) = 1
  /\ \A n \in 1..Len(wd) : Held(wd[n].val)

\* C6 (as claimed): a read() that takes events from the kernel's queue
\* returns normally, one tuple per event taken and in the order of the
\* queue, each with a pathname registered for the event's watch descriptor
\* and the event's name, mask and cookie.
C6_ReadInOrder ==
  [][(ilast'.op = "read" /\ queue' # queue)
       => LET batch == SubSeq(queue, 1, Len(queue) - Len(queue'))
          IN /\ ilast'.res = "ok"
             /\ Len(ilast'.ret) = Len(batch)
             /\ \A j \in 1..Len(batch) :
                  /\ DictHas(wd, ilast'.ret[j].pathname)
                  /\ DictGet(wd, ilast'.ret[j].pathname) = batch[j].wd
                  /\ ilast'.ret[j].name = batch[j].name
                  /\ ilast'.ret[j].mask = batch[j].mask
                  /\ ilast'.ret[j].cookie = batch[j].cookie]_vars

\* C7: remove() of a pathname that is not registered ends with KeyError,
\* which is none of the kernel's errors, and changes neither the kernel's
\* watches nor its queue nor the dict.
C7_RemoveUnknown ==
  [][(ilast'.op = "remove" /\ ~DictHas(wd, ilast'.path))
       => /\ ilast'.res = "KeyError" /\ ilast'.res \notin OSErrors
          /\ wd' = wd /\ kwatch' = kwatch /\ queue' = queue]_vars

\* C7 witness: a remove() has ended with KeyError while other pathnames are
\* registered.
C7_Witness ==
  /\ ilast.op = "remove" /\ ilast.res = "KeyError"
  /\ wd # <<>> /\ ~DictHas(wd, ilast.path)

\* C8 (as claimed): after remove() of a registered pathname, however the
\* kernel call ended, no item of the dict refers to a watch the kernel does
\* not hold (no orphaned entry), and the pathname is still registered if the
\* kernel still holds its watch (no lost entry).
C8_RemoveConsistent ==
  [][(ilast'.op = "remove" /\ DictHas(wd, ilast'.path))
       => LET w == DictGet(wd, ilast'.path)
          IN /\ \A n \in 1..Len(wd') : wd'[n].val = w => kwatch'[w] # NoWatch
             /\ kwatch'[w] # NoWatch => DictHas(wd', ilast'.path)]_vars

C10_AddReplaceOrCombine ==
  [][(ilast'.op = "add" /\ ilast'.res = "ok" /\ DictHas(wd, ilast'.path)
        /\ Held(DictGet(wd, ilast'.path)))
       => LET w == DictGet(wd, ilast'.path)
              m == ilast'.mask
          IN /\ kwatch'[w].mask = IF ilast'.replace THEN m \cap EventBits
                                  ELSE kwatch[w].mask \cup (m \cap EventBits)
             /\ Count(DictKeys(wd'), ilast'.path) = 1
             /\ DictGet(wd', ilast'.path) = w]_vars

\* C10 witness: an add() without replace of a mask with IN_MOVED_TO alone
\* has left the watch with both event bits: the kernel combined the masks.
C10_Witness ==
  /\ ilast.op = "add" /\ ilast.res = "ok" /\ ~ilast.replace
  /\ ilast.mask \cap EventBits = {"IN_MOVED_TO"}
  /\ kwatch[DictGet(wd, ilast.path)].mask = IN_MOVE

\* ------------------------------------------------------- eventfd claims
\* object i is an eventfd object whose descriptor is open
LiveEvt(i) == objs[i].st = "live" /\ objs[i].kind = "eventfd"

C14_WriteOutOfRangeEINVAL ==
  [][(last'.op = "write" /\ elast'.arg[1] /\ elast'.arg[2] \notin 0..MaxCounter)
       => (last'.res = "EINVAL" /\ counter' = counter)]_vars

LiveSig(i) == objs[i].st = "live" /\ objs[i].kind = "signalfd"
\* the pending signals that are in the set S, oldest first
Watched(q, S) == SelectSeq(q, LAMBDA x : x \in S)

\* what is observable of signalfd object i: what signals(), isNonBlocking()
\* and isCloseOnExec() return, and the mask and flags in force in the kernel
SigState(o, k) ==
  <<o.signalset, o.isNonBlocking, o.isCloseOnExec, k \cap Sigs, k \ Sigs>>

\* C16 (as claimed): a modify() keeps the descriptor; after one that returned
\* normally signals() is the set of the items passed, isNonBlocking() and
\* isCloseOnExec() are the flags passed, and the kernel object behind the
\* descriptor has exactly that signal mask and those flags; after one that
\* failed the set and the flags are all the old ones or all the new ones,
\* never a part of each.
C16_ModifyInPlace ==
  [][\A i \in Inst :
       (last'.op = "modify" /\ last'.inst = i) =>
         LET S   == ToSet(slast'.arg[2])
             new == <<S, slast'.nonBlocking, slast'.closeOnExec, S,
                      signalfd_flags(slast'.nonBlocking, slast'.closeOnExec)>>
             old == SigState(objs[i], kflags[i])
             now == SigState(objs'[i], kflags'[i])
         IN  /\ objs'[i].fd = objs[i].fd
             /\ last'.res = "ok" => now = new
             /\ last'.res # "ok" =>
                  (now = old \/ (slast'.arg[1] /\ now = new))]_vars

\* C17 (as claimed): a constructor call or a modify() with a signalset that
\* does not convert, is empty or holds a number that is no signal ends with
\* EINVAL, the constructor leaving the object without a descriptor; and
\* signals() of every signalfd object with a descriptor is a non-empty set
\* of signals.
C17_InvalidSetRejected ==
  /\ (last.op \in {"init", "modify"} /\ objs[last.inst].kind = "signalfd"
        /\ (~slast.arg[1] \/ K_sigset_res(ToSet(slast.arg[2])) # "ok"))
       => /\ last.res = "EINVAL"
          /\ last.op = "init" => objs[last.inst].fd = Unset
  /\ \A i \in Inst :
       LiveSig(i) => (objs[i].signalset # {} /\ objs[i].signalset \subseteq Sigs)

\* C18 (as claimed): a read() on a signalfd object with watched signals
\* pending (those in signals()) returns normally with the record of the
\* oldest of them, whose signo is in signals(), and takes exactly that one
\* signal from the pending ones; with none pending on an object whose
\* isNonBlocking() is true it ends with EAGAIN and does not block.
C18_ReadOnePerCall ==
  [][\A i \in Inst :
       (LiveSig(i) /\ last'.inst = i) =>
         /\ last'.op = "read" =>
              LET w == Watched(spend, objs[i].signalset) IN
              IF w # <<>>
              THEN /\ last'.res = "ok"
                   /\ slast'.ret = Head(w) /\ slast'.ret \in objs[i].signalset
                   /\ Len(spend') = Len(spend) - 1
                   /\ Watched(spend', objs[i].signalset) = Tail(w)
              ELSE objs[i].isNonBlocking => (last'.res = "EAGAIN" /\ spend' = spend)
         /\ last'.op = "blocked" => ~objs[i].isNonBlocking]_vars

\* ------------------------------------------------------- timerfd claims
\* object i is a timerfd object whose descriptor is open
LiveTmr(i) == objs[i].st = "live" /\ objs[i].kind = "timerfd"

\* C19: a settime() that returns normally returns the (value, interval) pair
\* the timer had when it was called, and in the same step installs the new
\* pair and drops the expirations of the old one; with value 0 the timer is
\* disarmed.  A settime() that fails changes nothing.  gettime() returns the
\* pair the timer has, and a disarmed timer stays disarmed and counts no
\* expiration until the next settime().
C19_SettimeReturnsPrevious ==
  [][\A i \in Inst : LiveTmr(i) =>
       /\ (last'.op = "settime" /\ last'.inst = i /\ last'.res = "ok") =>
            /\ tlast'.ret = <<tval[i], tint[i]>>
            /\ tint'[i] = tlast'.interval
            /\ tlast'.value = 0 => (tval'[i] = 0 /\ texp'[i] = 0)
            /\ (tlast'.value > 0 /\ ~tlast'.absolute) =>
                 (tval'[i] = tlast'.value /\ texp'[i] = 0)
            /\ (tlast'.value > 0 /\ tlast'.absolute) =>
                 \/ tval'[i] \in 1..tlast'.value /\ texp'[i] = 0
                 \/ tval'[i] = tlast'.interval /\ texp'[i] = 1
       /\ (last'.op = "settime" /\ last'.inst = i /\ last'.res # "ok") =>
            <<tval', tint', texp'>> = <<tval, tint, texp>>
       /\ (last'.op = "gettime" /\ last'.inst = i) =>
            /\ tlast'.ret = <<tval[i], tint[i]>>
            /\ <<tval', tint', texp'>> = <<tval, tint, texp>>
       /\ (tval[i] = 0 /\ last'.op # "settime") =>
            (tval'[i] = 0 /\ texp'[i] <= texp[i])]_vars

\* C19 witness: a settime() with value 0 has disarmed an armed timer and
\* returned the setting it had, which is not the one passed.
C19_Witness ==
  /\ last.op = "settime" /\ last.res = "ok" /\ LiveTmr(last.inst)
  /\ tlast.value = 0 /\ tlast.ret[1] > 0
  /\ tval[last.inst] = 0 /\ texp[last.inst] = 0

\* C20: a timer set with interval 0 expires once: while it is armed no
\* expiration is pending, the tick at which it expires leaves exactly one
\* expiration and the timer disarmed, the read() after that returns 1, and
\* with the timer disarmed and nothing pending a read() on an object made
\* non-blocking ends with EAGAIN and never blocks.  The clock goes on: the
\* timer does not stay one tick from its expiration.
C20_OneShot ==
  /\ [][\A i \in Inst : (LiveTmr(i) /\ tint[i] = 0) =>
          /\ tval[i] > 0 => texp[i] = 0
          /\ texp[i] <= 1
          /\ (last'.op = "env" /\ K_expires(i)) =>
               (texp'[i] = 1 /\ tval'[i] = 0 /\ tint'[i] = 0)
          /\ (last'.op = "gettime" /\ last'.inst = i /\ texp[i] = 1) =>
               tlast'.ret[1] = 0
          /\ (last'.op = "read" /\ last'.inst = i /\ texp[i] = 1) =>
               /\ last'.res = "ok" /\ tlast'.count = 1
               /\ texp'[i] = 0 /\ tval'[i] = 0
          /\ (last'.inst = i /\ tval[i] = 0 /\ texp[i] = 0
                /\ objs[i].isNonBlocking) =>
               /\ last'.op = "read" => (last'.res = "EAGAIN" /\ texp'[i] = 0)
               /\ last'.op # "blocked"]_vars
  /\ \A i \in Inst :
       (LiveTmr(i) /\ tval[i] = 1 /\ tint[i] = 0)
         ~> (tval[i] # 1 \/ tint[i] # 0)

\* C20 witness: on a non-blocking object the read() after the expiration of
\* a timer with interval 0 has returned 1, and the timer is disarmed.
C20_Witness ==
  /\ last.op = "read" /\ last.res = "ok" /\ LiveTmr(last.inst)
  /\ objs[last.inst].isNonBlocking
  /\ tlast.count = 1
  /\ tval[last.inst] = 0 /\ tint[last.inst] = 0 /\ texp[last.inst] = 0

\* C21: for a timer set with an interval, every tick at which it expires
\* adds one to the expirations pending and arms it again with the interval;
\* a read() that returns normally returns the expirations pending, at least
\* 1, and leaves none pending; no other call changes them.  So at every
\* moment the expirations since the last settime() that no read() has
\* returned are exactly the ones pending: none is dropped, none is counted
\* twice.
C21_PeriodicCount ==
  /\ [](\A i \in Inst : LiveTmr(i) => tdue[i] = texp[i])
  /\ [][\A i \in Inst : (LiveTmr(i) /\ tint[i] > 0) =>
          /\ (last'.op = "env" /\ K_expires(i)) =>
               (texp'[i] = texp[i] + 1 /\ tval'[i] = tint[i])
          /\ (last'.op = "env" /\ ~K_expires(i)) => texp'[i] = texp[i]
          /\ (last'.op = "read" /\ last'.inst = i /\ last'.res = "ok") =>
               (tlast'.count = texp[i] /\ tlast'.count >= 1 /\ texp'[i] = 0)
          /\ (last'.op = "read" /\ last'.inst = i /\ last'.res # "ok") =>
               (texp[i] = 0 /\ texp'[i] = 0)
          /\ last'.op \in {"gettime", "blocked"} => texp'[i] = texp[i]]_vars

\* C21 witness: a read() on a periodic timer that is still armed has returned
\* more than one expiration at once and left none pending.
C21_Witness ==
  /\ last.op = "read" /\ last.res = "ok" /\ LiveTmr(last.inst)
  /\ tlast.count > 1
  /\ tint[last.inst] > 0 /\ tval[last.inst] > 0
  /\ texp[last.inst] = 0 /\ tdue[last.inst] = 0

\* ---------------------------------------------------- the example loop
\* SIGINT is pending for the process
SigintPending == \E n \in 1..Len(spend) : spend[n] = "SIGINT"

\* C22: the loop of examples/test.py ends only after sfd.read() has returned
\* a SIGINT record; no call in it raises, every descriptor it is about to
\* read is readable, so no read blocks or ends with EAGAIN; a branch of the
\* timerfd takes the expirations pending and leaves isrunning alone; and
\* once SIGINT is pending the loop ends.
C22_LoopEndsOnSigint ==
  /\ []((pc = "done" \/ ~isrunning) => sawint)
  /\ [](pc # "raised")
  /\ [](pc = "dispatch" => K_readable(Head(events)))
  /\ [](pc = "write" => counter[EFD] < MaxCounter)
  /\ [][/\ last'.op \in {"read", "write"} => last'.res = "ok"
        /\ last'.op # "blocked"
        /\ (last'.op = "read" /\ last'.inst = TFD) =>
             /\ tlast'.count >= 1 /\ texp'[TFD] = 0
             /\ isrunning' = isrunning
        /\ (last'.op = "read" /\ last'.inst = SFD) =>
             (slast'.ret = "SIGINT" /\ pc' = "write")
        /\ (last'.op = "write") => counter'[EFD] = counter[EFD] + 1
        /\ (last'.op = "read" /\ last'.inst = EFD) =>
             (counter'[EFD] = 0 /\ ~isrunning')]_vars
  /\ SigintPending ~> (pc = "done")

\* C22 witness: the loop has ended after a SIGINT: the record was read, the
\* eventfd was written and read again.
C22_Witness ==
  /\ pc = "done" /\ ~isrunning /\ sawint
  /\ counter[EFD] = 0 /\ ~SigintPending

\* ------------------------------------------------ inotify: watch states
\* the watch descriptors of the IN_IGNORED events among the first k of the
\* queue
IgnoredWds(q, k) ==
  {q[j].wd : j \in {n \in 1..k : "IN_IGNORED" \in q[n].mask}}

\* C23 (as claimed): a pathname is a key of the mapping after an add() that
\* returned normally and no key after a remove() that returned normally;
\* and after a read() that returned normally with an IN_IGNORED event, no
\* item of the mapping holds the watch descriptor of that event and the
\* pathname returned with it is not in watchedPaths().
C23_TerminalEventPurges ==
  [][/\ (ilast'.op = "add" /\ ilast'.res = "ok") => DictHas(wd', ilast'.path)
     /\ (ilast'.op = "remove" /\ ilast'.res = "ok") => ~DictHas(wd', ilast'.path)
     /\ (ilast'.op = "read" /\ ilast'.res = "ok") =>
          /\ \A w \in IgnoredWds(queue, Len(queue) - Len(queue')) :
               KeysOf(wd', w) = <<>>
          /\ \A j \in 1..Len(ilast'.ret) :
               "IN_IGNORED" \in ilast'.ret[j].mask =>
                 ~DictHas(wd', ilast'.ret[j].pathname)]_vars

\* ------------------------------------------------ eventfd: the counter
\* C24: on a non-blocking eventfd object a write() of a value in range ends
\* with EAGAIN and leaves the counter as it was when the counter plus the
\* value is above the largest counter value, and otherwise returns normally
\* and adds exactly the value; such an object never blocks in write(); and
\* the counter of every object is within its range in every state.
C24_WriteNoOverflow ==
  /\ [](\A i \in DOMAIN counter : counter[i] \in 0..MaxCounter)
  /\ [][\A i \in Inst :
          (LiveEvt(i) /\ objs[i].isNonBlocking /\ last'.inst = i) =>
            /\ (last'.op = "write" /\ elast'.arg[1]
                   /\ elast'.arg[2] \in 0..MaxCounter) =>
                 IF counter[i] + elast'.arg[2] > MaxCounter
                 THEN last'.res = "EAGAIN" /\ counter' = counter
                 ELSE last'.res = "ok"
                      /\ counter'[i] = counter[i] + elast'.arg[2]
            /\ last'.op # "blocked"]_vars

\* C24 witness: on a non-blocking object a write() of a value in range that
\* the counter has no room for has ended with EAGAIN, the counter kept.
C24_Witness ==
  /\ last.op = "write" /\ last.res = "EAGAIN" /\ ~last.changed
  /\ LiveEvt(last.inst) /\ objs[last.inst].isNonBlocking
  /\ elast.arg[1] /\ elast.arg[2] \in 1..MaxCounter
  /\ counter[last.inst] > 0
  /\ counter[last.inst] + elast.arg[2] > MaxCounter

\* ------------------------------------------------- inotify: empty masks
\* C25 (as claimed): an add() with a mask that holds no event ends with
\* EINVAL, whatever replace is, and leaves the mapping as it was.
C25_EmptyMaskEINVAL ==
  [][(ilast'.op = "add" /\ ilast'.mask \cap EventBits = {})
       => (ilast'.res = "EINVAL" /\ wd' = wd)]_vars

\* C26 (as claimed): a close() or __del__() of an instance never closes the
\* descriptor of another instance: every live instance that was not closed
\* itself still has its kernel object open on the descriptor it holds.
C26_StaleCloseHarmless ==
  \A j \in Inst :
    (objs[j].st = "live" /\ ~closed[j])
      => (objs[j].fd \in OpenOn(j) /\ released[j] = 0)

\* C27 (as claimed): a read() that takes a non-empty batch of events off the
\* kernel's queue returns normally, with one tuple for each event it took.
C27_ReadLosesNoEvent ==
  [][(ilast'.op = "read" /\ Len(queue') < Len(queue))
       => (ilast'.res = "ok" /\ Len(ilast'.ret) = Len(queue) - Len(queue'))]_vars

\* C28 (as claimed): a modify() that fails leaves the object as it was:
\* signals(), isNonBlocking(), isCloseOnExec() and fileno() return what they
\* returned before the call, and the kernel's mask and flags are untouched.
C28_FailedModifyNoChange ==
  [][(last'.op = "modify" /\ last'.res # "ok")
       => (objs'[last'.inst] = objs[last'.inst] /\ kflags' = kflags)]_vars

====
